---- MODULE Spec2Model ----
(***************************************************************************)
(* github-summariser (src/main.py): POST /summarize fetches the root       *)
(* listing and the README of a repository from the source-control          *)
(* provider, sends both to a text-generation model and returns the parsed  *)
(* reply.                                                                   *)
(*                                                                          *)
(* Text is modelled as a sequence of one-character strings (file names,    *)
(* URLs, base64 text) or of code points (decoded README text); short       *)
(* opaque texts (header values, exception messages) are TLA+ strings.      *)
(* Python's None is the empty tuple and a present value x is <<x>>.        *)
(* A request runs as one coroutine; it is interleaved with other requests  *)
(* only at its awaits, so there is one action per stretch of code between  *)
(* two awaits.                                                              *)
(***************************************************************************)
EXTENDS Integers, Sequences, FiniteSets, TLC

(* ------------------------------ bounds --------------------------------- *)

\* Longest root listing the provider returns to a request handled alone.
MaxListing == 3

\* Number of requests the host runtime handles concurrently.
NumRequests == 2

Reqs == 1..NumRequests

(* --------------------------- Python values ----------------------------- *)

None == <<>>

Some(x) == <<x>>

Min(a, b) == IF a < b THEN a ELSE b

\* s[:n]
Take(s, n) == SubSeq(s, 1, Min(Len(s), n))

\* s[n:]  (0-based n)
Drop(s, n) == SubSeq(s, Min(Len(s), n) + 1, Len(s))

\* str.rstrip(c)
RECURSIVE RStrip(_, _)
RStrip(s, c) ==
    IF s # <<>> /\ s[Len(s)] = c THEN RStrip(SubSeq(s, 1, Len(s) - 1), c) ELSE s

\* str.split(sep) for a one-character separator: always at least one segment.
RECURSIVE SplitFrom(_, _, _)
SplitFrom(s, sep, cur) ==
    IF s = <<>> THEN << cur >>
    ELSE IF Head(s) = sep THEN << cur >> \o SplitFrom(Tail(s), sep, <<>>)
    ELSE SplitFrom(Tail(s), sep, Append(cur, Head(s)))

Split(s, sep) == SplitFrom(s, sep, <<>>)

\* str.rfind(c), 0-based, -1 when absent.
RFind(s, c) ==
    IF \E i \in 1..Len(s) : s[i] = c
    THEN (CHOOSE i \in 1..Len(s) : s[i] = c /\ \A j \in (i+1)..Len(s) : s[j] # c) - 1
    ELSE -1

\* str.startswith(c) for a one-character prefix.
StartsWith(s, c) == s # <<>> /\ s[1] = c

UpperCase == << "A","B","C","D","E","F","G","H","I","J","K","L","M",
                "N","O","P","Q","R","S","T","U","V","W","X","Y","Z" >>

LowerCase == << "a","b","c","d","e","f","g","h","i","j","k","l","m",
                "n","o","p","q","r","s","t","u","v","w","x","y","z" >>

LowerChar(c) ==
    IF \E i \in 1..26 : UpperCase[i] = c
    THEN LowerCase[CHOOSE i \in 1..26 : UpperCase[i] = c]
    ELSE c

\* str.lower()
Lower(s) == [i \in 1..Len(s) |-> LowerChar(s[i])]

\* sep.join(list)
RECURSIVE Join(_, _)
Join(sep, list) ==
    IF list = <<>> THEN <<>>
    ELSE IF Len(list) = 1 THEN list[1]
    ELSE list[1] \o sep \o Join(sep, Tail(list))

(* ------------------------- should_include_file ------------------------- *)

\* os.path.splitext (posixpath): the extension starts at the last dot, unless
\* only dots precede it in the file name or a "/" follows it.
RECURSIVE SplitExtScan(_, _, _)
SplitExtScan(p, filenameIndex, dotIndex) ==
    IF filenameIndex < dotIndex
    THEN IF p[filenameIndex + 1] # "."
         THEN << Take(p, dotIndex), Drop(p, dotIndex) >>
         ELSE SplitExtScan(p, filenameIndex + 1, dotIndex)
    ELSE << p, <<>> >>

SplitExt(p) ==
    LET sepIndex == RFind(p, "/")
        dotIndex == RFind(p, ".")
    IN  IF dotIndex > sepIndex
        THEN SplitExtScan(p, sepIndex + 1, dotIndex)
        ELSE << p, <<>> >>

ignored_extensions ==
    { <<".","p","n","g">>, <<".","j","p","g">>, <<".","g","i","f">>,
      <<".","z","i","p">>, <<".","e","x","e">>, <<".","p","y","c">>,
      <<".","l","o","c","k">> }

\* A plausible slip: the extension is compared without lower-casing it.
should_include_file_NoLower(filename) ==
    IF StartsWith(filename, ".") THEN FALSE
    ELSE SplitExt(filename)[2] \notin ignored_extensions

should_include_file(filename) ==
    IF StartsWith(filename, ".") THEN FALSE
    ELSE LET ext == Lower(SplitExt(filename)[2])
         IN  ext \notin ignored_extensions

(* ------------------ base64.b64decode and bytes.decode ------------------ *)

B64Alphabet ==
    << "A","B","C","D","E","F","G","H","I","J","K","L","M","N","O","P",
       "Q","R","S","T","U","V","W","X","Y","Z","a","b","c","d","e","f",
       "g","h","i","j","k","l","m","n","o","p","q","r","s","t","u","v",
       "w","x","y","z","0","1","2","3","4","5","6","7","8","9","+","/" >>

InB64(c) == \E i \in 1..64 : B64Alphabet[i] = c

B64Value(c) == (CHOOSE i \in 1..64 : B64Alphabet[i] = c) - 1

\* The outcome of an operation that may raise: a value, or the exception's text.
\* status is the status_code of an HTTPException and 0 for any other exception.
Ok(v) == [raised |-> FALSE, value |-> v, text |-> "", status |-> 0]

Raise(t) == [raised |-> TRUE, value |-> <<>>, text |-> t, status |-> 0]

\* raise HTTPException(status_code=code, detail=detail)
RaiseHTTP(code, detail) == [raised |-> TRUE, value |-> <<>>, text |-> detail, status |-> code]

\* binascii.a2b_base64, not strict: characters outside the alphabet are
\* skipped, a pad that completes a quad ends the input, a dangling quad raises.
RECURSIVE A2B(_, _, _, _, _)
A2B(s, quad_pos, pads, leftchar, out) ==
    IF s = <<>>
    THEN IF quad_pos = 0 THEN Ok(out)
         ELSE IF quad_pos = 1
              THEN Raise("Invalid base64-encoded string: number of data characters cannot be 1 more than a multiple of 4")
              ELSE Raise("Incorrect padding")
    ELSE LET ch == Head(s) IN
         IF ch = "="
         THEN IF quad_pos >= 2 /\ quad_pos + pads + 1 >= 4
              THEN Ok(out)
              ELSE A2B(Tail(s), quad_pos, IF quad_pos >= 2 THEN pads + 1 ELSE pads,
                       leftchar, out)
         ELSE IF ~InB64(ch)
         THEN A2B(Tail(s), quad_pos, pads, leftchar, out)
         ELSE LET v == B64Value(ch) IN
              CASE quad_pos = 0 -> A2B(Tail(s), 1, 0, v, out)
                [] quad_pos = 1 -> A2B(Tail(s), 2, 0, v % 16,
                                       Append(out, leftchar * 4 + v \div 16))
                [] quad_pos = 2 -> A2B(Tail(s), 3, 0, v % 4,
                                       Append(out, leftchar * 16 + v \div 4))
                [] OTHER        -> A2B(Tail(s), 0, 0, 0,
                                       Append(out, leftchar * 64 + v))

b64decode(s) == A2B(s, 0, 0, 0, <<>>)

IsCont(b) == b >= 128 /\ b <= 191

Utf8Error == "'utf-8' codec can't decode bytes"

\* bytes.decode("utf-8"), strict: the code points, or UnicodeDecodeError.
RECURSIVE Utf8Decode(_, _)
Utf8Decode(b, out) ==
    IF b = <<>> THEN Ok(out)
    ELSE LET b1 == b[1]
             n  == Len(b)
         IN
         IF b1 < 128 THEN Utf8Decode(Tail(b), Append(out, b1))
         ELSE IF b1 >= 194 /\ b1 <= 223
         THEN IF n >= 2 /\ IsCont(b[2])
              THEN Utf8Decode(Drop(b, 2), Append(out, (b1 - 192) * 64 + (b[2] - 128)))
              ELSE Raise(Utf8Error)
         ELSE IF b1 >= 224 /\ b1 <= 239
         THEN IF /\ n >= 3 /\ IsCont(b[2]) /\ IsCont(b[3])
                 /\ (b1 = 224 => b[2] >= 160)
                 /\ (b1 = 237 => b[2] <= 159)
              THEN Utf8Decode(Drop(b, 3),
                     Append(out, (b1 - 224) * 4096 + (b[2] - 128) * 64 + (b[3] - 128)))
              ELSE Raise(Utf8Error)
         ELSE IF b1 >= 240 /\ b1 <= 244
         THEN IF /\ n >= 4 /\ IsCont(b[2]) /\ IsCont(b[3]) /\ IsCont(b[4])
                 /\ (b1 = 240 => b[2] >= 144)
                 /\ (b1 = 244 => b[2] <= 143)
              THEN Utf8Decode(Drop(b, 4),
                     Append(out, (b1 - 240) * 262144 + (b[2] - 128) * 4096
                                 + (b[3] - 128) * 64 + (b[4] - 128)))
              ELSE Raise(Utf8Error)
         ELSE Raise(Utf8Error)

\* data["content"], base64.b64decode(...).decode("utf-8")  (main.py line 90)
DecodeReadme(data) ==
    IF "content" \notin DOMAIN data THEN Raise("'content'")
    ELSE LET raw == b64decode(data.content)
         IN  IF raw.raised THEN raw ELSE Utf8Decode(raw.value, <<>>)

(* ----------------------- the model's reply text ------------------------ *)

(* A reply is a sequence of lexical tokens [t, v]: punctuation, a JSON      *)
(* string literal (v is its value), a number, a bare word, white space, or  *)
(* the three-backquote code fence.  A fence that opens a json block is the  *)
(* fence token followed by the word json.                                   *)
P(c) == [t |-> "punct", v |-> c]

S(v) == [t |-> "str", v |-> v]

N(v) == [t |-> "num", v |-> v]

Wd(v) == [t |-> "word", v |-> v]

Ws == [t |-> "ws", v |-> "\n"]

Fence == [t |-> "fence", v |-> "backquotes"]

\* content.replace(<fence>json, "")
RECURSIVE RemoveJsonFences(_)
RemoveJsonFences(toks) ==
    IF toks = <<>> THEN <<>>
    ELSE IF Len(toks) >= 2 /\ toks[1] = Fence /\ toks[2] = Wd("json")
    THEN RemoveJsonFences(Drop(toks, 2))
    ELSE << Head(toks) >> \o RemoveJsonFences(Tail(toks))

\* content.replace(<fence>, "")
RemoveFences(toks) == SelectSeq(toks, LAMBDA x : x # Fence)

RECURSIVE LStrip(_)
LStrip(toks) == IF toks # <<>> /\ Head(toks).t = "ws" THEN LStrip(Tail(toks)) ELSE toks

RECURSIVE RStripWs(_)
RStripWs(toks) ==
    IF toks # <<>> /\ toks[Len(toks)].t = "ws"
    THEN RStripWs(SubSeq(toks, 1, Len(toks) - 1)) ELSE toks

\* str.strip()
Strip(toks) == RStripWs(LStrip(toks))

\* line 137
CleanReply(content) == Strip(RemoveFences(RemoveJsonFences(content)))

(* ------------------------------ json.loads ----------------------------- *)

JStr(v) == [kind |-> "string", text |-> v, items |-> <<>>]

JNum(v) == [kind |-> "number", text |-> v, items |-> <<>>]

JLit(v) == [kind |-> "literal", text |-> v, items |-> <<>>]

JArr(items) == [kind |-> "array", text |-> "", items |-> items]

\* A dict: its (key, value) pairs in insertion order, keys distinct.
JObj(items) == [kind |-> "object", text |-> "", items |-> items]

\* d[k] = v
DictSet(items, k, v) ==
    IF \E i \in 1..Len(items) : items[i].key = k
    THEN [i \in 1..Len(items) |-> IF items[i].key = k THEN [key |-> k, val |-> v]
                                                       ELSE items[i]]
    ELSE Append(items, [key |-> k, val |-> v])

Keys(obj) == { obj.items[i].key : i \in 1..Len(obj.items) }

Parsed(v, rest) == [ok |-> TRUE, val |-> v, rest |-> rest]

NoParse == [ok |-> FALSE, val |-> JLit("null"), rest |-> <<>>]

NextIs(toks, tok) == LStrip(toks) # <<>> /\ Head(LStrip(toks)) = tok

After(toks) == Tail(LStrip(toks))

RECURSIVE ParseValue(_), ParseElems(_, _), ParseMembers(_, _)
ParseValue(toks0) ==
    LET toks == LStrip(toks0) IN
    IF toks = <<>> THEN NoParse
    ELSE LET h == Head(toks) IN
         CASE h.t = "str" -> Parsed(JStr(h.v), Tail(toks))
           [] h.t = "num" -> Parsed(JNum(h.v), Tail(toks))
           [] h.t = "word" /\ h.v \in {"true", "false", "null"} ->
                  Parsed(JLit(h.v), Tail(toks))
           [] h = P("[") -> IF NextIs(Tail(toks), P("]"))
                            THEN Parsed(JArr(<<>>), After(Tail(toks)))
                            ELSE ParseElems(Tail(toks), <<>>)
           [] h = P("{") -> IF NextIs(Tail(toks), P("}"))
                            THEN Parsed(JObj(<<>>), After(Tail(toks)))
                            ELSE ParseMembers(Tail(toks), <<>>)
           [] OTHER -> NoParse

ParseElems(toks, acc) ==
    LET e == ParseValue(toks) IN
    IF ~e.ok THEN NoParse
    ELSE IF NextIs(e.rest, P(",")) THEN ParseElems(After(e.rest), Append(acc, e.val))
    ELSE IF NextIs(e.rest, P("]")) THEN Parsed(JArr(Append(acc, e.val)), After(e.rest))
    ELSE NoParse

ParseMembers(toks, acc) ==
    LET k == LStrip(toks) IN
    IF k = <<>> \/ Head(k).t # "str" \/ ~NextIs(Tail(k), P(":")) THEN NoParse
    ELSE LET e == ParseValue(After(Tail(k))) IN
         IF ~e.ok THEN NoParse
         ELSE LET d == DictSet(acc, Head(k).v, e.val) IN
              IF NextIs(e.rest, P(",")) THEN ParseMembers(After(e.rest), d)
              ELSE IF NextIs(e.rest, P("}")) THEN Parsed(JObj(d), After(e.rest))
              ELSE NoParse

\* json.loads: one value, then nothing but white space; else JSONDecodeError.
json_loads(toks) ==
    LET r == ParseValue(toks) IN
    IF r.ok /\ LStrip(r.rest) = <<>> THEN Ok(r.val)
    ELSE Raise("JSONDecodeError")

(* ----------------------- what the environment sends -------------------- *)

Url_widgets == <<"w","i","d","g","e","t","s">>

Url_slash_widgets == <<"/","w","i","d","g","e","t","s">>

Url_acme_slashes == <<"a","c","m","e","/","/">>

Url_full == <<"h","t","t","p","s",":","/","/","g","i","t","h","u","b",".","c","o","m",
              "/","a","c","m","e","/","w","i","d","g","e","t","s">>

Url_trailing == <<"a","c","m","e","/","w","i","d","g","e","t","s","/">>

Url_empty == <<>>

main_py == <<"m","a","i","n",".","p","y">>

logo_png == <<"l","o","g","o",".","p","n","g">>

dot_git == <<".","g","i","t">>

LOGO_PNG == <<"L","O","G","O",".","P","N","G">>

png_bare == <<"p","n","g">>

poetry_lock == <<"p","o","e","t","r","y",".","l","o","c","k">>

NamePool == { main_py, logo_png, dot_git, LOGO_PNG, png_bare, poetry_lock }

\* base64 of "hi", as the provider sends it (with a line break)
B64_hi == <<"a","G","k","=","\n">>

\* base64 of the UTF-8 bytes C3 A9 21 (e-acute, "!")
B64_e_acute == <<"w","6","k","h">>

B64_bad_padding == <<"a","G","k">>

\* base64 of the single byte FF
B64_not_utf8 == <<"/","w","=","=">>

\* The README texts the provider holds, with the content field it sends for each.
ReadmeVectors ==
    { [text |-> <<104, 105>>, content |-> B64_hi],
      [text |-> <<233, 33>>,  content |-> B64_e_acute] }

\* str(exc) of the transport errors the HTTP client raises.
ConnectFailed == "All connection attempts failed"

NameNotKnown == "[Errno -2] Name or service not known"

\* A well-formed reply: the three-key object.
ReplyObject ==
    << P("{"), S("summary"), P(":"), S("text"), P(","),
       S("technologies"), P(":"), P("["), S("text"), P("]"), P(","),
       S("structure"), P(":"), S("text"), P("}") >>

ReplyFencedJson == << Fence, Wd("json"), Ws >> \o ReplyObject \o << Ws, Fence >>

ReplyFenced == << Fence, Ws >> \o ReplyObject \o << Ws, Fence, Ws >>

ReplyProse == << Wd("Here"), Ws >> \o ReplyObject

\* cut by max_tokens before the closing brace
ReplyTruncated == SubSeq(ReplyObject, 1, Len(ReplyObject) - 1)

ReplyEmpty == <<>>

ReplyArray == << P("["), N("1"), P(","), N("1"), P("]") >>

ReplyNumber == << N("1") >>

ReplyString == << S("text") >>

ReplyNull == << Wd("null") >>

ReplyMissingKeys == << P("{"), S("summary"), P(":"), S("text"), P("}") >>

ReplyExtraKey ==
    SubSeq(ReplyObject, 1, Len(ReplyObject) - 1)
        \o << P(","), S("extra"), P(":"), N("1"), P("}") >>

\* Replies that are not JSON once the fences are removed.
InvalidReplies == { ReplyProse, ReplyTruncated, ReplyEmpty }

\* Replies that are JSON, but no three-key object.
WrongShapeReplies ==
    { ReplyArray, ReplyNumber, ReplyString, ReplyNull, ReplyMissingKeys, ReplyExtraKey }

GoodReplies == { ReplyObject, ReplyFencedJson, ReplyFenced }

(* -------------------------------- state -------------------------------- *)

VARIABLES
    clients,         \* the requests the host runtime is handling
    GITHUB_TOKEN,    \* os.getenv("GITHUB_TOKEN"): None, or the text
    pc,              \* where each request's coroutine stands
    github_url,      \* request.github_url
    owner,           \* get_repo_data's locals ...
    repo_name,
    headers,
    tree_resp,
    readme_resp,
    file_list,       \* ... and the pair it returns to summarize_repo
    readme_content,
    completion,      \* the outcome of client.chat.completions.create
    calls,           \* the outbound calls each request has issued, in order
    http_response    \* the response sent to the caller

vars == << clients, GITHUB_TOKEN, pc, github_url, owner, repo_name, headers, tree_resp,
           readme_resp, file_list, readme_content, completion, calls, http_response >>

\* A request handled alone draws its inputs from the full pools; requests
\* handled concurrently draw them from the narrow ones.
Alone == Cardinality(clients) = 1

UrlPool ==
    IF Alone
    THEN { Url_widgets, Url_slash_widgets, Url_acme_slashes, Url_full, Url_trailing,
           Url_empty }
    ELSE { Url_widgets, Url_trailing }

Entries == { [name |-> n] : n \in NamePool }

\* A body whose entry has no "name" key.
MalformedListing == << [path |-> main_py] >>

ListingPool ==
    IF Alone
    THEN UNION { [1..n -> Entries] : n \in 0..MaxListing } \cup { MalformedListing }
    ELSE { << [name |-> main_py], [name |-> logo_png] >> }

\* What awaiting the contents request yields: a response, or a transport error.
TreeOutcomes ==
    { Ok([status |-> 200, body |-> l]) : l \in ListingPool }
      \cup { Ok([status |-> st, body |-> <<>>]) : st \in IF Alone THEN {404, 500} ELSE {404} }
      \cup { Raise(t) : t \in IF Alone THEN {ConnectFailed, NameNotKnown} ELSE {ConnectFailed} }

ReadmeBodies ==
    IF Alone
    THEN { [content |-> v.content] : v \in ReadmeVectors }
           \cup { [content |-> B64_bad_padding], [content |-> B64_not_utf8] }
           \cup { [message |-> B64_hi] }
    ELSE { [content |-> B64_hi] }

\* What awaiting the readme request yields.
ReadmeOutcomes ==
    { Ok([status |-> 200, body |-> b]) : b \in ReadmeBodies }
      \cup { Ok([status |-> st, body |-> [message |-> <<>>]]) :
                st \in IF Alone THEN {404, 403, 500} ELSE {404, 500} }
      \cup { Raise(t) : t \in IF Alone THEN {ConnectFailed, NameNotKnown} ELSE {NameNotKnown} }

ReplyPool ==
    IF Alone THEN GoodReplies \cup InvalidReplies \cup WrongShapeReplies
    ELSE { ReplyObject, ReplyArray }

\* What awaiting the completion yields: a response (its choices, each with a
\* message content that may be None), or an error of the model provider.
LlmOutcomes ==
    { Ok([choices |-> << [content |-> Some(c)] >>]) : c \in ReplyPool }
      \cup { Raise("Connection error.") }
      \cup (IF Alone THEN { Ok([choices |-> <<>>]), Ok([choices |-> << [content |-> None] >>]) }
            ELSE {})

TokenPool == { None, Some(""), Some("ghp_token") }

(* --------------------------- exception handlers ----------------------- *)

\* custom_http_exception_handler
custom_http_exception_handler(exc) ==
    [status |-> exc.status, handler |-> "http",
     body |-> [status |-> "error", message |-> exc.text]]

\* global_exception_handler
global_exception_handler(exc) ==
    [status |-> 500, handler |-> "global",
     body |-> [status |-> "error", message |-> "Internal Server Error: " \o exc.text]]

\* The handler the framework picks for an exception that leaves the route.
HandleException(exc) ==
    IF exc.status # 0 THEN custom_http_exception_handler(exc)
    ELSE global_exception_handler(exc)

\* The route returned a value: it is serialised with status 200.
Returned(value) == [status |-> 200, handler |-> "route", body |-> value]

(* ----------------------------- get_repo_data --------------------------- *)

\* A variant that splits the URL without stripping its trailing slashes.
ParseRepoUrl_NoStrip(repo_url) ==
    LET parts == Split(repo_url, "/")
    IN  IF Len(parts) < 2 THEN RaiseHTTP(400, "Invalid GitHub URL")
        ELSE Ok([owner |-> parts[Len(parts) - 1], repo_name |-> parts[Len(parts)]])

\* lines 59-64
ParseRepoUrl(repo_url) ==
    LET parts == Split(RStrip(repo_url, "/"), "/")
    IN  IF Len(parts) < 2 THEN RaiseHTTP(400, "Invalid GitHub URL")
        ELSE Ok([owner |-> parts[Len(parts) - 1], repo_name |-> parts[Len(parts)]])

\* bool(GITHUB_TOKEN)
Truthy(token) == token # None /\ token[1] # ""

\* lines 66-69: a dict with both keys, whatever the token
BuildHeaders(token) ==
    [Accept        |-> Some("application/vnd.github.v3+json"),
     Authorization |-> IF Truthy(token) THEN Some("Bearer " \o token[1]) ELSE None]

\* The HTTP client builds a request from the headers: a header whose value is
\* not text makes it raise TypeError before anything is sent.
BuildRequest(hdrs) ==
    IF \E k \in DOMAIN hdrs : hdrs[k] = None
    THEN Raise("Header value must be str or bytes, not <class 'NoneType'>")
    ELSE Ok(hdrs)

ContentsCall(o, rn, hdrs) ==
    [to |-> "contents", owner |-> o, repo_name |-> rn, headers |-> hdrs,
     completed |-> FALSE]

ReadmeCall(o, rn, hdrs) ==
    [to |-> "readme", owner |-> o, repo_name |-> rn, headers |-> hdrs,
     completed |-> FALSE]

\* A variant that starts both provider requests together.
FirstCalls_Both(o, rn, hdrs) == << ContentsCall(o, rn, hdrs), ReadmeCall(o, rn, hdrs) >>

\* lines 74-75: the calls in flight once the coroutine first suspends
FirstCalls(o, rn, hdrs) == << ContentsCall(o, rn, hdrs) >>

\* line 81: the comprehension raises KeyError at the first entry with no name
RECURSIVE FilterListing(_, _)
FilterListing(all_files, acc) ==
    IF all_files = <<>> THEN Ok(acc)
    ELSE LET f == Head(all_files) IN
         IF "name" \notin DOMAIN f THEN Raise("'name'")
         ELSE FilterListing(Tail(all_files),
                            IF should_include_file(f.name) THEN Append(acc, f.name) ELSE acc)

\* A variant that reports a failed listing instead of tolerating it.
ListingFiles_Strict(resp) ==
    IF resp.status = 200 THEN FilterListing(resp.body, <<>>)
    ELSE RaiseHTTP(resp.status, "GitHub API Error")

\* lines 77-81
ListingFiles(resp) ==
    IF resp.status = 200 THEN FilterListing(resp.body, <<>>) ELSE Ok(<<>>)

\* "No README found."
NoReadmeText == <<78, 111, 32, 82, 69, 65, 68, 77, 69, 32, 102, 111, 117, 110, 100, 46>>

\* A variant without the 404 case.
ReadmeText_No404(resp) ==
    IF resp.status = 200 THEN DecodeReadme(resp.body)
    ELSE RaiseHTTP(resp.status, "GitHub API Error")

\* lines 87-94
ReadmeText(resp) ==
    IF resp.status = 200 THEN DecodeReadme(resp.body)
    ELSE IF resp.status = 404 THEN Ok(NoReadmeText)
    ELSE RaiseHTTP(resp.status, "GitHub API Error")

(* ----------------------------- analyze_repo ---------------------------- *)

README_LIMIT == 5000

FALLBACK ==
    JObj(<< [key |-> "summary", val |-> JStr("Analysis failed to produce valid JSON.")],
            [key |-> "technologies", val |-> JArr(<<>>)],
            [key |-> "structure", val |-> JStr("Unknown")] >>)

\* lines 102-133: the arguments of the completion call
GenerationCall(readme_text, files) ==
    [to |-> "generation",
     files_str |-> Join(<< ",", " " >>, files),
     truncated_readme |-> Take(readme_text, README_LIMIT),
     completed |-> FALSE]

\* lines 125-140, the body of the try: the parsed reply, or what it raises
TryParse(out) ==
    IF out.raised THEN out
    ELSE IF out.value.choices = <<>> THEN Raise("list index out of range")
    ELSE LET content == out.value.choices[1].content IN
         IF content = None
         THEN Raise("'NoneType' object has no attribute 'replace'")
         ELSE json_loads(CleanReply(content[1]))

\* A variant whose except clause catches only the JSON decoding error.
AnalyzeResult_NarrowExcept(out) ==
    LET t == TryParse(out) IN
    IF t.raised /\ t.text = "JSONDecodeError" THEN Ok(FALLBACK) ELSE t

\* lines 124-148: every exception of the try becomes the fallback
AnalyzeResult(out) ==
    LET t == TryParse(out) IN
    IF t.raised THEN Ok(FALLBACK) ELSE t

(* -------------------------------- actions ------------------------------ *)

Unset == [r \in Reqs |-> None]

Init ==
    /\ clients \in { {1}, Reqs }
    /\ GITHUB_TOKEN \in TokenPool
    /\ pc = [r \in Reqs |-> "idle"]
    /\ github_url = Unset
    /\ owner = Unset
    /\ repo_name = Unset
    /\ headers = Unset
    /\ tree_resp = Unset
    /\ readme_resp = Unset
    /\ file_list = Unset
    /\ readme_content = Unset
    /\ completion = Unset
    /\ calls = [r \in Reqs |-> <<>>]
    /\ http_response = Unset

\* The request ends: the response goes to the caller.
Finish(r, resp) ==
    /\ pc' = [pc EXCEPT ![r] = "done"]
    /\ http_response' = [http_response EXCEPT ![r] = Some(resp)]

Complete(cs) == [cs EXCEPT ![Len(cs)].completed = TRUE]

\* POST /summarize arrives: summarize_repo calls get_repo_data, which runs up
\* to its first await (lines 151-154, 59-75).
Receive(r) ==
    /\ pc[r] = "idle"
    /\ \E url \in UrlPool :
         LET parsed == ParseRepoUrl(url)
             hdrs   == BuildHeaders(GITHUB_TOKEN)
             req    == BuildRequest(hdrs)
         IN  /\ github_url' = [github_url EXCEPT ![r] = Some(url)]
             /\ IF parsed.raised
                THEN /\ Finish(r, HandleException(parsed))
                     /\ UNCHANGED << owner, repo_name, headers, calls >>
                ELSE /\ owner' = [owner EXCEPT ![r] = Some(parsed.value.owner)]
                     /\ repo_name' = [repo_name EXCEPT ![r] = Some(parsed.value.repo_name)]
                     /\ headers' = [headers EXCEPT ![r] = Some(hdrs)]
                     /\ IF req.raised
                        THEN /\ Finish(r, HandleException(req))
                             /\ UNCHANGED calls
                        ELSE /\ calls' = [calls EXCEPT ![r] =
                                  FirstCalls(parsed.value.owner, parsed.value.repo_name, hdrs)]
                             /\ pc' = [pc EXCEPT ![r] = "await_tree"]
                             /\ UNCHANGED http_response
    /\ UNCHANGED << clients, GITHUB_TOKEN, tree_resp, readme_resp, file_list,
                    readme_content, completion >>

\* The contents request completes; the coroutine runs to the await of the
\* readme request (lines 75-85).
TreeReply(r) ==
    /\ pc[r] = "await_tree"
    /\ \E out \in TreeOutcomes :
         /\ IF out.raised
            THEN /\ Finish(r, HandleException(out))
                 /\ calls' = [calls EXCEPT ![r] = Complete(@)]
                 /\ UNCHANGED << tree_resp, file_list >>
            ELSE LET files == ListingFiles(out.value) IN
                 /\ tree_resp' = [tree_resp EXCEPT ![r] = Some(out.value)]
                 /\ IF files.raised
                    THEN /\ file_list' = [file_list EXCEPT ![r] = Some(<<>>)]
                         /\ Finish(r, HandleException(files))
                         /\ calls' = [calls EXCEPT ![r] = Complete(@)]
                    ELSE /\ file_list' = [file_list EXCEPT ![r] = Some(files.value)]
                         /\ calls' = [calls EXCEPT ![r] =
                              Append(Complete(@),
                                     ReadmeCall(owner[r][1], repo_name[r][1], headers[r][1]))]
                         /\ pc' = [pc EXCEPT ![r] = "await_readme"]
                         /\ UNCHANGED http_response
    /\ UNCHANGED << clients, GITHUB_TOKEN, github_url, owner, repo_name, headers,
                    readme_resp, readme_content, completion >>

\* The readme request completes; get_repo_data runs to its return statement
\* (lines 85-96).
ReadmeReply(r) ==
    /\ pc[r] = "await_readme"
    /\ calls' = [calls EXCEPT ![r] = Complete(@)]
    /\ \E out \in ReadmeOutcomes :
         IF out.raised
         THEN /\ Finish(r, HandleException(out))
              /\ UNCHANGED << readme_resp, readme_content >>
         ELSE LET text == ReadmeText(out.value) IN
              /\ readme_resp' = [readme_resp EXCEPT ![r] = Some(out.value)]
              /\ IF text.raised
                 THEN /\ readme_content' = [readme_content EXCEPT ![r] = Some(<<>>)]
                      /\ Finish(r, HandleException(text))
                 ELSE /\ readme_content' = [readme_content EXCEPT ![r] = Some(text.value)]
                      /\ pc' = [pc EXCEPT ![r] = "fetched"]
                      /\ UNCHANGED http_response
    /\ UNCHANGED << clients, GITHUB_TOKEN, github_url, owner, repo_name, headers,
                    tree_resp, file_list, completion >>

\* get_repo_data returns the pair and its other locals go; analyze_repo runs
\* to the await of the completion (lines 96, 154-157, 102-125).
Analyze(r) ==
    /\ pc[r] = "fetched"
    /\ owner' = [owner EXCEPT ![r] = None]
    /\ repo_name' = [repo_name EXCEPT ![r] = None]
    /\ headers' = [headers EXCEPT ![r] = None]
    /\ tree_resp' = [tree_resp EXCEPT ![r] = None]
    /\ readme_resp' = [readme_resp EXCEPT ![r] = None]
    /\ calls' = [calls EXCEPT ![r] =
                   Append(@, GenerationCall(readme_content[r][1], file_list[r][1]))]
    /\ pc' = [pc EXCEPT ![r] = "await_llm"]
    /\ UNCHANGED << clients, GITHUB_TOKEN, github_url, file_list, readme_content,
                    completion, http_response >>

\* The completion call ends; analyze_repo returns and summarize_repo returns
\* its result (lines 125-148, 157-160).
LlmReply(r) ==
    /\ pc[r] = "await_llm"
    /\ calls' = [calls EXCEPT ![r] = Complete(@)]
    /\ \E out \in LlmOutcomes :
         LET result == AnalyzeResult(out) IN
         /\ completion' = [completion EXCEPT ![r] = Some(out)]
         /\ Finish(r, IF result.raised THEN HandleException(result)
                                       ELSE Returned(result.value))
    /\ UNCHANGED << clients, GITHUB_TOKEN, github_url, owner, repo_name, headers,
                    tree_resp, readme_resp, file_list, readme_content >>

Next ==
    \/ \E r \in clients : Receive(r)
    \/ \E r \in clients : TreeReply(r)
    \/ \E r \in clients : ReadmeReply(r)
    \/ \E r \in clients : Analyze(r)
    \/ \E r \in clients : LlmReply(r)

Spec == Init /\ [][Next]_vars

(* =============================== claims =============================== *)

Done(r) == pc[r] = "done" /\ http_response[r] # None

Kinds(cs) == [i \in 1..Len(cs) |-> cs[i].to]

IsPrefix(a, b) == Len(a) <= Len(b) /\ a = SubSeq(b, 1, Len(a))

(* ---- C1 ---- *)

ExcludedExts ==
    { <<"p","n","g">>, <<"j","p","g">>, <<"g","i","f">>, <<"z","i","p">>,
      <<"e","x","e">>, <<"p","y","c">>, <<"l","o","c","k">> }

\* The name ends, whatever its case, with a dot and the extension e.
EndsWithExt(n, e) ==
    /\ Len(n) > Len(e)
    /\ Lower(SubSeq(n, Len(n) - Len(e), Len(n))) = << "." >> \o e

Excluded(n) == StartsWith(n, ".") \/ \E e \in ExcludedExts : EndsWithExt(n, e)

WellFormed(body) == \A i \in 1..Len(body) : "name" \in DOMAIN body[i]

NamesOf(body) == [i \in 1..Len(body) |-> body[i].name]

\* C1: for every root listing returned with status 200, the file list holds
\* no name that starts with a dot and none whose lower-cased extension is
\* excluded, and holds every other name of the listing in the provider's order.
C1_FilteredListing ==
    \A r \in Reqs :
        ( /\ tree_resp[r] # None
          /\ tree_resp[r][1].status = 200
          /\ WellFormed(tree_resp[r][1].body) )
        => /\ file_list[r] # None
           /\ \A i \in 1..Len(file_list[r][1]) : ~Excluded(file_list[r][1][i])
           /\ file_list[r][1] =
                SelectSeq(NamesOf(tree_resp[r][1].body), LAMBDA n : ~Excluded(n))

\* The listing [main.py, logo.png, .git] was filtered to [main.py].
C1_Witness ==
    \E r \in Reqs :
        /\ tree_resp[r] # None
        /\ tree_resp[r][1].status = 200
        /\ tree_resp[r][1].body = << [name |-> main_py], [name |-> logo_png], [name |-> dot_git] >>
        /\ file_list[r] = Some(<< main_py >>)

(* ---- C2 ---- *)

\* Every "/" of the URL is a trailing one: stripped and split, it is one segment.
FewerThanTwoSegments(url) ==
    ~ \E i, j \in 1..Len(url) : i < j /\ url[i] = "/" /\ url[j] # "/"

\* C2: a request whose URL has fewer than two segments is answered with
\* status 400 and makes no outbound call, to the provider or to the model.
C2_InvalidUrlRejected ==
    \A r \in Reqs :
        (github_url[r] # None /\ FewerThanTwoSegments(github_url[r][1]))
        => /\ Done(r)
           /\ http_response[r][1].status = 400
           /\ http_response[r][1].body.status = "error"
           /\ calls[r] = <<>>
           /\ completion[r] = None

\* The URL "widgets" was rejected.
C2_Witness ==
    \E r \in Reqs :
        /\ github_url[r] = Some(Url_widgets)
        /\ Done(r)
        /\ http_response[r][1].status = 400
        /\ calls[r] = <<>>

(* ---- C3 ---- *)

\* C3: every request issued to the provider names a non-empty owner and a
\* non-empty repository.
C3_SegmentsNonEmpty ==
    \A r \in Reqs : \A i \in 1..Len(calls[r]) :
        calls[r][i].to \in {"contents", "readme"}
        => calls[r][i].owner # <<>> /\ calls[r][i].repo_name # <<>>

(* ---- C4 ---- *)

HasGenerationCall(r) == \E i \in 1..Len(calls[r]) : calls[r][i].to = "generation"

\* C4: the README response decides the Fetcher's outcome: 200 gives the
\* decoded text of the content field, 404 gives "No README found." without
\* failing, any other status fails with that status and the Generator is
\* not invoked.
C4_ReadmeOutcome ==
    \A r \in Reqs :
        readme_resp[r] # None =>
            LET resp == readme_resp[r][1] IN
            /\ \A v \in ReadmeVectors :
                 (resp.status = 200 /\ "content" \in DOMAIN resp.body
                    /\ resp.body.content = v.content)
                 => pc[r] = "fetched" /\ readme_content[r] = Some(v.text)
            /\ resp.status = 404
                 => pc[r] = "fetched" /\ readme_content[r] = Some(NoReadmeText)
            /\ resp.status \notin {200, 404}
                 => /\ Done(r)
                    /\ http_response[r][1].status = resp.status
                    /\ http_response[r][1].body.status = "error"
                    /\ ~HasGenerationCall(r)
                    /\ completion[r] = None

\* One request got 404 and holds the literal text; another got 500 and
\* failed with 500.
C4_Witness ==
    \E r, q \in Reqs :
        /\ readme_resp[r] # None /\ readme_resp[r][1].status = 404
        /\ pc[r] = "fetched" /\ readme_content[r] = Some(NoReadmeText)
        /\ readme_resp[q] # None /\ readme_resp[q][1].status = 500
        /\ Done(q) /\ http_response[q][1].status = 500

(* ---- C5 ---- *)

\* The README response makes the Fetcher fail.
ReadmeFailing(resp) ==
    \/ resp.status \notin {200, 404}
    \/ /\ resp.status = 200
       /\ ~ \E v \in ReadmeVectors :
              "content" \in DOMAIN resp.body /\ resp.body.content = v.content

\* C5: a listing response with a status other than 200 does not fail the
\* Fetcher: the file list is empty, the README request is issued, and the
\* Fetcher fails only if the README request does.
C5_ListingTolerated ==
    \A r \in Reqs :
        (tree_resp[r] # None /\ tree_resp[r][1].status # 200)
        => /\ file_list[r] = Some(<<>>)
           /\ Len(calls[r]) >= 2
           /\ calls[r][2].to = "readme"
           /\ Done(r) => /\ calls[r][2].completed
                         /\ readme_resp[r] = None \/ ReadmeFailing(readme_resp[r][1])
           /\ (readme_resp[r] # None /\ ~ReadmeFailing(readme_resp[r][1]))
                => pc[r] = "fetched"

\* A listing answered 404 and the Fetcher still returned.
C5_Witness ==
    \E r \in Reqs :
        /\ tree_resp[r] # None /\ tree_resp[r][1].status = 404
        /\ pc[r] = "fetched"
        /\ file_list[r] = Some(<<>>)
        /\ readme_resp[r] # None /\ readme_resp[r][1].status = 200

(* ---- C6 ---- *)

\* The generation stage failed: the call raised, the reply has no usable
\* content, or the reply is not JSON once its fences are removed.
GenFailed(out) ==
    \/ out.raised
    \/ out.value.choices = <<>>
    \/ out.value.choices[1].content = None
    \/ out.value.choices[1].content[1] \in InvalidReplies

\* C6: any failure of the generation stage yields the fallback object with
\* status 200.
C6_FallbackOnFailure ==
    \A r \in Reqs :
        (completion[r] # None /\ GenFailed(completion[r][1]))
        => /\ Done(r)
           /\ http_response[r][1].status = 200
           /\ http_response[r][1].handler = "route"
           /\ http_response[r][1].body = FALLBACK

\* A completion returned a reply cut short before its closing brace, and the
\* request was answered with the fallback.
C6_Witness ==
    \E r \in Reqs :
        /\ completion[r] # None
        /\ ~completion[r][1].raised
        /\ completion[r][1].value.choices # <<>>
        /\ completion[r][1].value.choices[1].content = Some(ReplyTruncated)
        /\ Done(r)
        /\ http_response[r][1].status = 200
        /\ http_response[r][1].body = FALLBACK

(* ---- C7 ---- *)

IsAnalysisResult(v) ==
    /\ "kind" \in DOMAIN v
    /\ v.kind = "object"
    /\ Keys(v) = {"summary", "technologies", "structure"}

\* C7: every 200 body of POST /summarize is an object with exactly the keys
\* summary, technologies and structure.
C7_AlwaysAnalysisResult ==
    \A r \in Reqs :
        (http_response[r] # None /\ http_response[r][1].status = 200)
        => IsAnalysisResult(http_response[r][1].body)

(* ---- C8 ---- *)

\* C8: any two responses produced for uncaught exceptions have identical
\* bodies, whatever the exceptions' texts.
C8_GenericMessage ==
    \A r, q \in Reqs :
        ( /\ http_response[r] # None /\ http_response[r][1].handler = "global"
          /\ http_response[q] # None /\ http_response[q][1].handler = "global" )
        => /\ http_response[r][1].status = 500
           /\ http_response[r][1].body = http_response[q][1].body

(* ---- C9 ---- *)

\* C9: the headers of the provider requests hold Accept; with a token they
\* hold Authorization = "Bearer <token>", without one they hold no
\* Authorization key.
C9_AuthorizationOmitted ==
    \A r \in Reqs :
        headers[r] # None =>
            LET h == headers[r][1] IN
            /\ "Accept" \in DOMAIN h /\ h.Accept # None
            /\ Truthy(GITHUB_TOKEN)
                 => "Authorization" \in DOMAIN h
                    /\ h.Authorization = Some("Bearer " \o GITHUB_TOKEN[1])
            /\ ~Truthy(GITHUB_TOKEN) => "Authorization" \notin DOMAIN h

(* ---- C10 ---- *)

\* The calls of a request are issued in order, each after the one before it
\* has completed, and the generation call only after the Fetcher returned.
CallOrder(r) ==
    /\ IsPrefix(Kinds(calls[r]), << "contents", "readme", "generation" >>)
    /\ \A i \in 1..(Len(calls[r]) - 1) : calls[r][i].completed
    /\ pc[r] = "done" => \A i \in 1..Len(calls[r]) : calls[r][i].completed
    /\ HasGenerationCall(r) => readme_content[r] # None /\ file_list[r] # None

\* C10 as stated: the calls are ordered, and a request makes exactly two
\* provider calls.
C10_ExactlyTwoProviderCalls ==
    \A r \in Reqs :
        /\ CallOrder(r)
        /\ Done(r) => IsPrefix(<< "contents", "readme" >>, Kinds(calls[r]))

\* C10, amended: the calls are ordered; a request makes at most one contents
\* call, then at most one readme call, then at most one generation call, and
\* exactly two provider calls once the README response has been received.
C10_CallOrder ==
    \A r \in Reqs :
        /\ CallOrder(r)
        /\ (readme_resp[r] # None \/ readme_content[r] # None)
             => /\ IsPrefix(<< "contents", "readme" >>, Kinds(calls[r]))
                /\ calls[r][2].completed

\* Two requests in flight at once: one awaits the model with its two
\* provider calls completed, the other still awaits its listing.
C10_Witness ==
    \E r, q \in Reqs :
        /\ pc[r] = "await_llm"
        /\ Kinds(calls[r]) = << "contents", "readme", "generation" >>
        /\ calls[r][2].completed /\ ~calls[r][3].completed
        /\ pc[q] = "await_tree"
        /\ Kinds(calls[q]) = << "contents" >>

====
